---- MODULE Spec2Model ----
(***************************************************************************)
(* Cluster matching of invenio_beard: do_matching (matching/match.py)      *)
(* drives the divider and, per subproblem, _match_clusters                 *)
(* (matching/simplex.py), which appends virtual clusters, builds the cost  *)
(* matrix, runs scipy's simplex linprog and decodes the solution vector.   *)
(*                                                                         *)
(* Python values are modelled as follows.                                  *)
(*   cluster key   [type, repr]: the Python type of the key and its        *)
(*                 printed form str(key) as a sequence of characters, so   *)
(*                 1 and "1" are different keys with the same repr;        *)
(*   dict          a function from its set of keys to item sets, together  *)
(*                 with the order in which keys()/viewvalues() iterate it  *)
(*                 (Python 2 dicts iterate in hash-slot order, which is    *)
(*                 not insertion order: {2: ..} with 'v1' added iterates   *)
(*                 as ['v1', 2] on CPython 2.7);                           *)
(*   tuple, list   records tagged "tuple" / "list" where they are stored   *)
(*                 in another list, sequences otherwise;                   *)
(*   float cost    an exact rational [num, den].                           *)
(***************************************************************************)
EXTENDS Integers, Sequences, FiniteSets, Bags, TLC

\* ---------------------------------------------------------------- bounds
NumItems == 2
MaxClusters == 2
SmallMaxiter == 1
MaxAuthors == 2
MaxCalls == 2
MaxSignatures == 2
MaxRecords == 4
MaxChunkSize == 2
DefaultMaxiter == 5000

Items == 1..NumItems

\* ------------------------------------------------------------------ keys
IntKey(digits) == [type |-> "int", repr |-> digits]
StrKey(chars) == [type |-> "str", repr |-> chars]

\* str(index): the printed form of a key
PyStr(key) == key.repr

\* 'v' + str(index)
VirtualKey(index) == StrKey(<<"v">> \o PyStr(index))

InputKeys ==
    { IntKey(<<"1">>), StrKey(<<"1">>), StrKey(<<"v", "1">>) }

\* a tuple (a, b) and a list, as elements of another list
PyTuple(a, b) == [type |-> "tuple", items |-> <<a, b>>]

PyList(elems) == [type |-> "list", items |-> elems]

\* ----------------------------------------------------------------- dicts
EmptyDict == [k \in {} |-> {}]

Keys(d) == DOMAIN d

\* d[key] = value
DictSet(d, key, value) ==
    [k \in (DOMAIN d) \cup {key} |-> IF k = key THEN value ELSE d[k]]

Restrict(d, ks) == [k \in ks |-> d[k]]

\* the orders in which a dict with this key set may be iterated
Orders(ks) ==
    { s \in [1..Cardinality(ks) -> ks] : \A i, j \in DOMAIN s : i # j => s[i] # s[j] }

RECURSIVE SetToSeq(_)
SetToSeq(S) ==
    IF S = {} THEN <<>>
    ELSE LET e == CHOOSE e \in S : TRUE IN <<e>> \o SetToSeq(S \ {e})

Range(s) == { s[i] : i \in DOMAIN s }

\* a cluster value that is no collection: the int 42 of test_type_error
\* (tests/test_subproblems.py 77), written as a set that is no set of items
Scalar == {42}

\* len(value) is defined
Sized(value) == value \subseteq Items

\* a partition: at most MaxClusters clusters, pairwise disjoint item sets
Partitions ==
    UNION { { d \in [ks -> SUBSET Items] :
                \A k1, k2 \in ks : k1 # k2 => d[k1] \cap d[k2] = {} } :
            ks \in { s \in SUBSET InputKeys : Cardinality(s) <= MaxClusters } }

\* malformed upstream data: a dict of at most MaxClusters clusters in which
\* at least one value is a scalar, the others pairwise disjoint item sets
MalformedPartitions ==
    UNION { { d \in [ks -> (SUBSET Items) \cup {Scalar}] :
                /\ \E k \in ks : ~Sized(d[k])
                /\ \A k1, k2 \in ks :
                      (k1 # k2 /\ Sized(d[k1]) /\ Sized(d[k2])) => d[k1] \cap d[k2] = {} } :
            ks \in { s \in SUBSET InputKeys : Cardinality(s) <= MaxClusters } }

\* ------------------------------------------------------- float arithmetic
\* a cost is the exact rational num / den, den > 0
Rat(n, d) == [num |-> n, den |-> d]

RatAdd(p, q) == Rat(p.num * q.den + q.num * p.den, p.den * q.den)

RatLess(p, q) == p.num * q.den < q.num * p.den

RatLeq(p, q) == p.num * q.den <= q.num * p.den

RatEq(p, q) == p.num * q.den = q.num * p.den

\* ------------------------------------------------------------ _cost_matrix
SymmetricDifference(s, t) == (s \ t) \cup (t \ s)

\* the tie-break term written "1 / (...)": Python 2 integer division
TieBreakIntegerDivision(cluster_before, cluster_after, n_after) ==
    Rat(1 \div (n_after * (1 + Cardinality(SymmetricDifference(cluster_before, cluster_after)))), 1)

\* the tie-break term without the len(partition_after) factor
TieBreakNoCount(cluster_before, cluster_after, n_after) ==
    Rat(1, 1 + Cardinality(SymmetricDifference(cluster_before, cluster_after)))

\* 1. / (len(partition_after) * (1 + len(symmetric_difference)))
TieBreak(cluster_before, cluster_after, n_after) ==
    Rat(1, n_after * (1 + Cardinality(SymmetricDifference(cluster_before, cluster_after))))

\* cost[index_before, index_after]
CostEntry(cluster_before, cluster_after, n_after) ==
    LET t == TieBreak(cluster_before, cluster_after, n_after)
    IN  RatAdd(Rat(-Cardinality(cluster_before \cap cluster_after), 1), Rat(-t.num, t.den))

\* d.viewvalues(), for a dict iterated in the given order of its keys
ViewValues(d, order) == [i \in DOMAIN order |-> d[order[i]]]

\* The matrix: values_before and values_after are partition_before.viewvalues()
\* and partition_after.viewvalues(); len(partition_after) is the number of
\* columns.
CostMatrix(values_before, values_after) ==
    [c \in (1..Len(values_before)) \X (1..Len(values_after)) |->
        CostEntry(values_before[c[1]], values_after[c[2]], Len(values_after))]

\* ------------------------------------------------------------------ linprog
\* A solution vector with entries 0/1 is the set of cells <<row, column>> that
\* hold 1. Every basic solution of the simplex tableau satisfies A_ub x <= 1
\* (a row takes at most one column) and A_eq x + artificials = 1 (a column is
\* taken at most once); the constraint matrix is totally unimodular, so the
\* entries are exactly 0.0 or 1.0.
BasicSolutions(n_before, n_after) ==
    { { <<f[j], j>> : j \in { j \in 1..n_after : f[j] # 0 } } :
        f \in { f \in [1..n_after -> 0..n_before] :
                  \A i, j \in 1..n_after : (i # j /\ f[i] # 0) => f[i] # f[j] } }

\* A_eq x = b_eq: every column is taken
Feasible(x, n_after) == \A j \in 1..n_after : \E c \in x : c[2] = j

RECURSIVE Objective(_, _)
Objective(cost, x) ==
    IF x = {} THEN Rat(0, 1)
    ELSE LET c == CHOOSE c \in x : TRUE
         IN  RatAdd(cost[c], Objective(cost, x \ {c}))

\* every basic solution with its objective value c . x
Tableau(cost, n_before, n_after) ==
    { [x |-> y, fun |-> Objective(cost, y)] : y \in BasicSolutions(n_before, n_after) }

\* one pivot: phase 1 drives an artificial variable out (one more column is
\* taken), phase 2 moves to a feasible basic solution of lower cost
Pivots(tableau, s, n_after) ==
    IF ~Feasible(s.x, n_after)
    THEN { t \in tableau : s.x \subseteq t.x /\ Cardinality(t.x) = Cardinality(s.x) + 1 }
    ELSE { t \in tableau : Feasible(t.x, n_after) /\ RatLess(t.fun, s.fun) }

\* OptimizeResult.status: 0 optimal, 1 iteration limit reached, 2 infeasible
Status(tableau, s, n_after) ==
    IF Pivots(tableau, s, n_after) # {} THEN 1
    ELSE IF Feasible(s.x, n_after) THEN 0 ELSE 2

\* The simplex loop "while not complete and nit < maxiter": frontier holds the
\* basic solutions the loop can be at after nit pivots. The loop ends at a
\* solution with no pivot left, or at any solution once nit reaches maxiter.
RECURSIVE SimplexLoop(_, _, _, _, _)
SimplexLoop(tableau, frontier, nit, n_after, max_iter) ==
    IF frontier = {} THEN {}
    ELSE IF nit >= max_iter THEN frontier
    ELSE { s \in frontier : Pivots(tableau, s, n_after) = {} }
         \cup SimplexLoop(tableau,
                          UNION { Pivots(tableau, s, n_after) : s \in frontier },
                          nit + 1, n_after, max_iter)

\* linprog(coefficients, A_ub, b_ub, A_eq, b_eq, options={'maxiter': maxiter}):
\* the OptimizeResult objects it may return, starting from the all-zero basis
Linprog(cost, n_before, n_after, max_iter) ==
    LET tableau == Tableau(cost, n_before, n_after)
        start == { s \in tableau : s.x = {} }
    IN  { [x |-> s.x, status |-> Status(tableau, s, n_after)] :
            s \in SimplexLoop(tableau, start, 0, n_after, max_iter) }

\* --------------------------------------------------- _match_clusters, decoding
\* the column of the first 1 in row index_first of solution.x, 0 if there is none
FirstOne(x, index_first, len_second) ==
    IF \E j \in 1..len_second : <<index_first, j>> \in x
    THEN CHOOSE j \in 1..len_second :
            /\ <<index_first, j>> \in x
            /\ \A h \in 1..(j - 1) : <<index_first, h>> \notin x
    ELSE 0

\* The loop of lines 160-174 over the rows index_first..n_rows (rows and columns
\* are numbered from 1 here, so "index_first < len_first" reads
\* "index_first <= len_first").
RECURSIVE DecodeFrom(_, _, _, _, _, _)
DecodeFrom(x, kb, ka, len_first, index_first, buckets) ==
    IF index_first > Len(kb) THEN buckets
    ELSE LET index_second == FirstOne(x, index_first, Len(ka))
             next ==
                 IF index_second # 0
                 THEN IF index_first <= len_first
                      THEN [buckets EXCEPT !.pairs =
                               Append(@, PyTuple(kb[index_first], ka[index_second]))]
                      ELSE [buckets EXCEPT !.new = Append(@, ka[index_second])]
                 ELSE IF index_first <= len_first
                      THEN [buckets EXCEPT !.remove = Append(@, kb[index_first])]
                      ELSE buckets
         IN  DecodeFrom(x, kb, ka, len_first, index_first + 1, next)

EmptyBuckets == [pairs |-> <<>>, new |-> <<>>, remove |-> <<>>]

\* a decoding whose row loop has no else branch: no row is ever removed
DecodeWithoutElse(x, kb, ka, len_first) ==
    [DecodeFrom(x, kb, ka, len_first, 1, EmptyBuckets) EXCEPT !.remove = <<>>]

\* lines 152-176: bucket_pairs, bucket_new, bucket_remove
Decode(x, kb, ka, len_first) == DecodeFrom(x, kb, ka, len_first, 1, EmptyBuckets)

\* lines 116-118: partition_before after the virtual clusters are appended
RECURSIVE AppendVirtualFrom(_, _)
AppendVirtualFrom(pb, indexes) ==
    IF indexes = <<>> THEN pb
    ELSE AppendVirtualFrom(DictSet(pb, VirtualKey(Head(indexes)), {}), Tail(indexes))

AppendVirtual(pb, pa) == AppendVirtualFrom(pb, SetToSeq(Keys(pa)))

\* _match_clusters(before, after, max_iter) as a whole (lines 116-176): the
\* triples a call may return, over the iteration orders of the two dicts and
\* the results of linprog
MatchClusters(before, after, max_iter) ==
    LET pb == AppendVirtual(before, after)
        len_first == Cardinality(Keys(pb)) - Cardinality(Keys(after))
    IN  UNION { { Decode(sol.x, kb, ka, len_first) :
                    sol \in Linprog(CostMatrix(ViewValues(pb, kb), ViewValues(after, ka)),
                                    Len(kb), Len(ka), max_iter) } :
                kb \in Orders(Keys(pb)), ka \in Orders(Keys(after)) }

\* ------------------------------------------------- _divide_into_subproblems
\* A node is a cluster of one side: <<"before", key>> or <<"after", key>>.
Nodes(before, after) ==
    { <<"before", k>> : k \in Keys(before) } \cup { <<"after", k>> : k \in Keys(after) }

ItemsOf(before, after, node) ==
    IF node[1] = "before" THEN before[node[2]] ELSE after[node[2]]

\* an adjacency in which an empty cluster is adjacent to every cluster of the
\* other side
AdjacentOrEmpty(before, after, n, m) ==
    /\ n[1] # m[1]
    /\ \/ ItemsOf(before, after, n) \cap ItemsOf(before, after, m) # {}
       \/ ItemsOf(before, after, n) = {}
       \/ ItemsOf(before, after, m) = {}

\* a before-cluster and an after-cluster are adjacent iff their item sets intersect
Adjacent(before, after, n, m) ==
    /\ n[1] # m[1]
    /\ ItemsOf(before, after, n) \cap ItemsOf(before, after, m) # {}

\* the clusters adjacent to the seen ones, without following the chains
ComponentOneStep(before, after, seen) ==
    seen \cup { m \in Nodes(before, after) :
                   \E n \in seen : Adjacent(before, after, n, m) }

RECURSIVE Component(_, _, _)
Component(before, after, seen) ==
    LET more == { m \in Nodes(before, after) :
                    \E n \in seen : Adjacent(before, after, n, m) }
    IN  IF more \subseteq seen THEN seen
        ELSE Component(before, after, seen \cup more)

\* a divider that walks the components from the before-clusters only
DivideFromBefore(before, after) ==
    { LET comp == Component(before, after, {n})
      IN  << Restrict(before, { k \in Keys(before) : <<"before", k>> \in comp }),
             Restrict(after, { k \in Keys(after) : <<"after", k>> \in comp }) >> :
      n \in { <<"before", k>> : k \in Keys(before) } }

\* the subproblems: one <<before-subset, after-subset>> per connected component
DivideIntoSubproblems(before, after) ==
    { LET comp == Component(before, after, {n})
      IN  << Restrict(before, { k \in Keys(before) : <<"before", k>> \in comp }),
             Restrict(after, { k \in Keys(after) : <<"after", k>> \in comp }) >> :
      n \in Nodes(before, after) }

\* the three buckets as sets of pairs and keys
AsSets(buckets) ==
    [pairs |-> Range(buckets.pairs), new |-> Range(buckets.new),
     remove |-> Range(buckets.remove)]

\* the loop of do_matching over the subproblems (match.py 63-77): the contents
\* of the three buckets it may end with, as sets
RECURSIVE DoMatching(_)
DoMatching(subproblem_set) ==
    IF subproblem_set = {} THEN { [pairs |-> {}, new |-> {}, remove |-> {}] }
    ELSE LET sp == CHOOSE sp \in subproblem_set : TRUE
         IN  { [pairs |-> r.pairs \cup rest.pairs, new |-> r.new \cup rest.new,
                remove |-> r.remove \cup rest.remove] :
               r \in { AsSets(m) : m \in MatchClusters(sp[1], sp[2], DefaultMaxiter) },
               rest \in DoMatching(subproblem_set \ {sp}) }

\* ------------------------------------------------------------------- state
VARIABLES
    entry,              \* the function the caller invoked
    maxiter,            \* _match_clusters' maxiter
    signatures_before,  \* the caller's two dicts
    signatures_after,
    entry_before,       \* their values when the call was made
    entry_after,
    pc,                 \* position in do_matching / _match_clusters
    error,              \* the exception that left the call, "none" if none
    subproblems,        \* what _divide_into_subproblems returned
    todo,               \* subproblems the loop of do_matching has not taken yet
    arg_before,         \* partition_before as passed to _match_clusters
    partition_before,   \* _match_clusters' two dicts
    partition_after,
    keys_before,        \* iteration order of partition_before, of partition_after
    keys_after,
    solution,           \* linprog's OptimizeResult: x and status
    matching_result,    \* what _match_clusters returned
    bucket_matched,     \* do_matching's three lists
    bucket_new,
    bucket_removed,
    cm_before,          \* a call of _cost_matrix on its own: the two arguments'
    cm_after,           \*   values in iteration order, and the matrix returned
    cm_cost,
    cm_pc

matchVars == << entry, maxiter, signatures_before, signatures_after, entry_before,
                entry_after, pc, error, subproblems, todo, arg_before, partition_before, partition_after,
                keys_before, keys_after, solution, matching_result,
                bucket_matched, bucket_new, bucket_removed >>

costVars == << cm_before, cm_after, cm_cost, cm_pc >>

VARIABLES
    consecutive_id,     \* querying.py: the module's counter, as its next value
    q_pc,               \* position of the process calling create_signatures
    q_calls,            \* calls of create_signatures made so far
    q_record_id,        \* the arguments of the last call: record_id and the
    q_authors,          \*   author fields "100" + "700" of cds_record
    q_signatures,       \* the list the last call returned
    q_created           \* every signature created in the process, in order

queryVars == << consecutive_id, q_pc, q_calls, q_record_id, q_authors, q_signatures,
                q_created >>

VARIABLES
    l_pc,               \* position of the caller of link_cluster
    l_cluster,          \* predicted_cluster: a list of signature ids
    l_signatures,       \* signatures: signature id -> signature
    l_lookup,           \* lookup: authority id -> record id of the profile
    l_order,            \* iteration order of the dict grouped_signatures
    l_mode,             \* mode of the call
    l_result            \* the pair returned: record_id, linked signatures

linkVars == << l_pc, l_cluster, l_signatures, l_lookup, l_order, l_mode, l_result >>

VARIABLES
    u_pc,               \* position of update
    u_clusters,         \* clusters_swapped in iteration order: whether
                        \* update_record returns a record for the cluster
    u_index,            \* number of clusters the loop has taken
    chunk_size,         \* records per file
    file_handle,        \* None or the file the handle is open on
    chunk,              \* number of the next file
    number_of_records,  \* records written so far
    u_files,            \* record_updates_<k>.xml at position k + 1
    u_error             \* exception update ended with

updateVars == << u_pc, u_clusters, u_index, chunk_size, file_handle, chunk,
                 number_of_records, u_files, u_error >>

auxVars == << queryVars, linkVars, updateVars >>

vars == << matchVars, costVars, auxVars >>

callerVars == << signatures_before, signatures_after >>
ghostVars == << entry, entry_before, entry_after >>
bucketVars == << bucket_matched, bucket_new, bucket_removed >>
orderVars == << keys_before, keys_after >>

Entries == { "do_matching", "_match_clusters" }

NoSolution == [x |-> {}, status |-> 0]

\* no call of _cost_matrix on its own is under way
CostIdle ==
    /\ cm_before = <<>>
    /\ cm_after = <<>>
    /\ cm_cost = <<>>
    /\ cm_pc = "idle"

\* the querying module is loaded and create_signatures has not been called
QueryIdle ==
    /\ consecutive_id = 0
    /\ q_pc = "idle"
    /\ q_calls = 0
    /\ q_record_id = ""
    /\ q_authors = <<>>
    /\ q_signatures = <<>>
    /\ q_created = <<>>

\* a Python value that may be None: <<>> is None, <<v>> is the value v
None == <<>>

NoResult == [record_id |-> None, linked |-> {}]

\* link_cluster has not been called
LinkIdle ==
    /\ l_pc = "idle"
    /\ l_cluster = <<>>
    /\ l_signatures = <<>>
    /\ l_lookup = EmptyDict
    /\ l_order = <<>>
    /\ l_mode = ""
    /\ l_result = NoResult

\* update has not been called
UpdateIdle ==
    /\ u_pc = "idle"
    /\ u_clusters = <<>>
    /\ u_index = 0
    /\ chunk_size = 1
    /\ file_handle = None
    /\ chunk = 0
    /\ number_of_records = 0
    /\ u_files = <<>>
    /\ u_error = "none"

\* nothing but the matching is under way
AuxIdle == QueryIdle /\ LinkIdle /\ UpdateIdle

Init ==
    /\ CostIdle
    /\ AuxIdle
    /\ entry \in Entries
    /\ maxiter \in IF entry = "do_matching" THEN {DefaultMaxiter}
                   ELSE {SmallMaxiter, DefaultMaxiter}
    /\ signatures_before \in IF entry = "do_matching"
                             THEN Partitions \cup MalformedPartitions
                             ELSE Partitions
    /\ signatures_after \in Partitions
    /\ entry_before = signatures_before
    /\ entry_after = signatures_after
    /\ pc = "call"
    /\ error = "none"
    /\ subproblems = {}
    /\ todo = {}
    /\ arg_before = EmptyDict
    /\ partition_before = EmptyDict
    /\ partition_after = EmptyDict
    /\ keys_before = <<>>
    /\ keys_after = <<>>
    /\ solution = NoSolution
    /\ matching_result = EmptyBuckets
    /\ bucket_matched = <<>>
    /\ bucket_new = <<>>
    /\ bucket_removed = <<>>

\* cost matrix of the running _match_clusters call (lines 121-122)
cost == CostMatrix(ViewValues(partition_before, keys_before),
                   ViewValues(partition_after, keys_after))

n_cluster_before == Len(keys_before)
n_cluster_after == Len(keys_after)

\* a divider that takes the values as they come
AllSizedUnchecked(partition) == TRUE

\* every value of the dict has a len()
AllSized(partition) == \A k \in Keys(partition) : Sized(partition[k])

\* match.py 59-65: the buckets are created, the divider is called and returns
\* the subproblems
Divide ==
    /\ pc = "call"
    /\ entry = "do_matching"
    /\ AllSized(signatures_before)
    /\ subproblems' = DivideIntoSubproblems(signatures_before, signatures_after)
    /\ todo' = subproblems'
    /\ pc' = "loop"
    /\ UNCHANGED << auxVars, costVars, maxiter, error, callerVars, ghostVars, arg_before, partition_before,
                    partition_after, orderVars, solution, matching_result, bucketVars >>

\* match.py 63-65: the divider raises TypeError on a value without len(); no
\* handler in do_matching, so the exception leaves do_matching
DivideRaises ==
    /\ pc = "call"
    /\ entry = "do_matching"
    /\ ~AllSized(signatures_before)
    /\ error' = "TypeError"
    /\ pc' = "raised"
    /\ UNCHANGED << auxVars, costVars, maxiter, subproblems, callerVars, ghostVars, todo, arg_before,
                    partition_before, partition_after, orderVars, solution,
                    matching_result, bucketVars >>

\* match.py 63-68: the loop takes a subproblem and calls _match_clusters on it
NextSubproblem ==
    /\ pc = "loop"
    /\ \E sp \in todo :
          /\ todo' = todo \ {sp}
          /\ arg_before' = sp[1]
          /\ partition_before' = sp[1]
          /\ partition_after' = sp[2]
    /\ pc' = "append"
    /\ UNCHANGED << auxVars, costVars, maxiter, error, subproblems, callerVars, ghostVars, orderVars, solution,
                    matching_result, bucketVars >>

\* the caller calls _match_clusters on its own two dicts (tests/test_simplex.py)
DirectCall ==
    /\ pc = "call"
    /\ entry = "_match_clusters"
    /\ arg_before' = signatures_before
    /\ partition_before' = signatures_before
    /\ partition_after' = signatures_after
    /\ pc' = "append"
    /\ UNCHANGED << auxVars, costVars, maxiter, error, subproblems, callerVars, ghostVars, todo, orderVars, solution,
                    matching_result, bucketVars >>

\* do_matching hands its own argument to _match_clusters
PassedByCallerAlways == TRUE

\* partition_before is the caller's own dict object: true of a direct call;
\* do_matching passes the dicts the divider built (match.py 63-68)
PassedByCaller == entry = "_match_clusters"

\* simplex.py 116-142: the virtual clusters are stored into partition_before,
\* the dict object the caller passed, and the matrices are laid out in the
\* iteration order of the two dicts
AppendVirtualClusters ==
    /\ pc = "append"
    /\ partition_before' = AppendVirtual(partition_before, partition_after)
    /\ signatures_before' = IF PassedByCaller THEN partition_before'
                            ELSE signatures_before
    /\ keys_before' \in Orders(Keys(partition_before'))
    /\ keys_after' \in Orders(Keys(partition_after))
    /\ pc' = "linprog"
    /\ UNCHANGED << auxVars, costVars, maxiter, error, subproblems, signatures_after, ghostVars, todo, arg_before,
                    partition_after, solution, matching_result, bucketVars >>

\* simplex.py 144-150: linprog runs and returns, with an optimum or without
CallLinprog ==
    /\ pc = "linprog"
    /\ solution' \in Linprog(cost, n_cluster_before, n_cluster_after, maxiter)
    /\ pc' = "decode"
    /\ UNCHANGED << auxVars, costVars, maxiter, error, subproblems, callerVars, ghostVars, todo, arg_before, partition_before,
                    partition_after, orderVars, matching_result, bucketVars >>

\* simplex.py 152-176: solution.x is decoded and the three buckets are returned
DecodeSolution ==
    /\ pc = "decode"
    /\ matching_result' =
          Decode(solution.x, keys_before, keys_after,
                 Cardinality(Keys(partition_before)) - Cardinality(Keys(partition_after)))
    /\ pc' = IF entry = "do_matching" THEN "collect" ELSE "done"
    /\ UNCHANGED << auxVars, costVars, maxiter, error, subproblems, callerVars, ghostVars, todo, arg_before, partition_before,
                    partition_after, orderVars, solution, bucketVars >>

\* a bucket list that keeps only the bucket of the subproblem solved last
KeepLast(bucket_list, bucket) ==
    IF bucket # <<>> THEN << PyList(bucket) >> ELSE bucket_list

\* list.append(bucket) when the bucket is not empty
AppendIfAny(bucket_list, bucket) ==
    IF bucket # <<>> THEN Append(bucket_list, PyList(bucket)) ELSE bucket_list

\* match.py 70-77; the call's frame and the subproblem's dicts are dropped
Collect ==
    /\ pc = "collect"
    /\ bucket_matched' = AppendIfAny(bucket_matched, matching_result.pairs)
    /\ bucket_new' = AppendIfAny(bucket_new, matching_result.new)
    /\ bucket_removed' = AppendIfAny(bucket_removed, matching_result.remove)
    /\ arg_before' = EmptyDict
    /\ partition_before' = EmptyDict
    /\ partition_after' = EmptyDict
    /\ keys_before' = <<>>
    /\ keys_after' = <<>>
    /\ solution' = NoSolution
    /\ matching_result' = EmptyBuckets
    /\ pc' = "loop"
    /\ UNCHANGED << auxVars, costVars, maxiter, error, subproblems, callerVars, ghostVars, todo >>

\* match.py 79
Return ==
    /\ pc = "loop"
    /\ todo = {}
    /\ pc' = "done"
    /\ UNCHANGED << auxVars, costVars, maxiter, error, subproblems, callerVars, ghostVars, todo, arg_before, partition_before,
                    partition_after, orderVars, solution, matching_result, bucketVars >>

Next ==
    \/ Divide
    \/ DivideRaises
    \/ NextSubproblem
    \/ DirectCall
    \/ AppendVirtualClusters
    \/ CallLinprog
    \/ DecodeSolution
    \/ Collect
    \/ Return

Spec == Init /\ [][Next]_vars

\* -------------------------------------- do_matching up to the divider's return
DividerInit == Init /\ entry = "do_matching"

DividerNext == Divide \/ DivideRaises

DividerSpec == DividerInit /\ [][DividerNext]_vars

\* ----------------------------------------------- _cost_matrix called on its own
\* any two dicts of at most MaxClusters clusters over the items (the clusters
\* of one dict need not be disjoint here), given by their values in iteration
\* order
ClusterLists ==
    UNION { [1..n -> SUBSET Items] : n \in 0..MaxClusters }

CostInit ==
    /\ AuxIdle
    /\ cm_before \in ClusterLists
    /\ cm_after \in ClusterLists
    /\ cm_cost = <<>>
    /\ cm_pc = "call"
    /\ entry = "do_matching"
    /\ maxiter = DefaultMaxiter
    /\ signatures_before = EmptyDict
    /\ signatures_after = EmptyDict
    /\ entry_before = EmptyDict
    /\ entry_after = EmptyDict
    /\ pc = "idle"
    /\ error = "none"
    /\ subproblems = {}
    /\ todo = {}
    /\ arg_before = EmptyDict
    /\ partition_before = EmptyDict
    /\ partition_after = EmptyDict
    /\ keys_before = <<>>
    /\ keys_after = <<>>
    /\ solution = NoSolution
    /\ matching_result = EmptyBuckets
    /\ bucket_matched = <<>>
    /\ bucket_new = <<>>
    /\ bucket_removed = <<>>

\* simplex.py 64-79
CostMatrixCall ==
    /\ cm_pc = "call"
    /\ cm_cost' = CostMatrix(cm_before, cm_after)
    /\ cm_pc' = "returned"
    /\ UNCHANGED << cm_before, cm_after, matchVars, auxVars >>

CostNext == CostMatrixCall

CostSpec == CostInit /\ [][CostNext]_vars

\* no matching is under way
MatchIdle ==
    /\ entry = "do_matching"
    /\ maxiter = DefaultMaxiter
    /\ signatures_before = EmptyDict
    /\ signatures_after = EmptyDict
    /\ entry_before = EmptyDict
    /\ entry_after = EmptyDict
    /\ pc = "idle"
    /\ error = "none"
    /\ subproblems = {}
    /\ todo = {}
    /\ arg_before = EmptyDict
    /\ partition_before = EmptyDict
    /\ partition_after = EmptyDict
    /\ keys_before = <<>>
    /\ keys_after = <<>>
    /\ solution = NoSolution
    /\ matching_result = EmptyBuckets
    /\ bucket_matched = <<>>
    /\ bucket_new = <<>>
    /\ bucket_removed = <<>>

\* ------------------------------------------------ querying.create_signatures
\* record ids, as str(record_id) prints them (tests_querying.py 105, 114)
RecordIds == { "139935", "2143438" }

\* values of subfield 'a': two persons and a collaboration
AuthorNames == { "Ellis, John", "Gunion, J F", "ATLAS Collaboration" }

\* is_collaboration (lines 28-44): the lower-cased name contains one of
\* "collaboration", "collaborations", "colaboration", "colaborations"
IsCollaboration(author_name) == author_name \in { "ATLAS Collaboration" }

\* an author datafield, by its values of subfield 'a' (none or one)
AuthorFields == { [a |-> <<>>] } \cup { [a |-> <<name>>] : name \in AuthorNames }

\* authors = cds_record["100"] + cds_record["700"] (lines 325-327)
AuthorLists == UNION { [1..n -> AuthorFields] : n \in 0..MaxAuthors }

\* a counter that hands out the same number again
NextCountStuck(counter) == counter

\* next(consecutive_id): the counter after one number was taken
NextCount(counter) == counter + 1

\* create_signature_id (lines 20-25): "{0}_{1}_{2}" of the publication id, the
\* author name and the next number of the counter
CreateSignatureId(signature, counter) ==
    << signature.publication_id, signature.author_name, counter >>

\* The loop of lines 330-378 from author i on: an author without subfield 'a'
\* raises IndexError and is passed over, a collaboration ends the loop
\* (break), any other author gets a signature with the next id.
RECURSIVE SignaturesFrom(_, _, _, _, _)
SignaturesFrom(record_id, authors, i, counter, signatures) ==
    IF i > Len(authors) THEN [signatures |-> signatures, counter |-> counter]
    ELSE IF authors[i].a = <<>>
         THEN SignaturesFrom(record_id, authors, i + 1, counter, signatures)
    ELSE IF IsCollaboration(authors[i].a[1])
         THEN [signatures |-> signatures, counter |-> counter]
    ELSE LET signature == [publication_id |-> record_id, author_name |-> authors[i].a[1]]
             with_id == [publication_id |-> record_id,
                         author_name |-> authors[i].a[1],
                         signature_id |-> CreateSignatureId(signature, counter)]
         IN  SignaturesFrom(record_id, authors, i + 1, NextCount(counter),
                            Append(signatures, with_id))

QueryInit ==
    /\ MatchIdle
    /\ CostIdle
    /\ LinkIdle
    /\ UpdateIdle
    /\ consecutive_id = 0
    /\ q_pc = "ready"
    /\ q_calls = 0
    /\ q_record_id = ""
    /\ q_authors = <<>>
    /\ q_signatures = <<>>
    /\ q_created = <<>>

\* one call create_signatures(record_id, cds_record) (lines 276-380)
CreateSignatures ==
    /\ q_pc \in {"ready", "returned"}
    /\ q_calls < MaxCalls
    /\ \E record_id \in RecordIds, authors \in AuthorLists :
          LET call == SignaturesFrom(record_id, authors, 1, consecutive_id, <<>>)
          IN  /\ q_record_id' = record_id
              /\ q_authors' = authors
              /\ q_signatures' = call.signatures
              /\ consecutive_id' = call.counter
              /\ q_created' = q_created \o call.signatures
    /\ q_calls' = q_calls + 1
    /\ q_pc' = "returned"
    /\ UNCHANGED << matchVars, costVars, linkVars, updateVars >>

QueryNext == CreateSignatures

QuerySpec == QueryInit /\ [][QueryNext]_vars

\* ------------------------------------------------------ linking.link_cluster
\* if value: neither None nor the empty string
Truthy(value) == value # None /\ value[1] # ""

\* a signature of the table: its name and what signature.get(..) gives for
\* the three authority ids
Signatures ==
    [author_name : { "Ellis, John", "Ellis, J" },
     author_cds_id : { None, <<"">>, <<"2108556">> },
     author_cern_id : { None, <<"389900">> },
     author_inspire_id : { None }]

\* a predicted cluster <<1, .., n>> with its signatures; signature ids are
\* numbered in the order of the list
SignatureTables == UNION { [1..n -> Signatures] : n \in 0..MaxSignatures }

\* "AUTHOR|(CDS){}", "AUTHOR|(SzGeCERN){}", "AUTHOR|(INSPIRE)INSPIRE-{}"
AuthorityId(prefix, id) == << prefix, id[1] >>

\* the authority ids group_by_authority_id files a signature under (52-76)
AuthorityIdsOf(signature) ==
    (IF Truthy(signature.author_cds_id)
     THEN << AuthorityId("AUTHOR|(CDS)", signature.author_cds_id) >> ELSE <<>>)
    \o (IF Truthy(signature.author_cern_id)
        THEN << AuthorityId("AUTHOR|(SzGeCERN)", signature.author_cern_id) >> ELSE <<>>)
    \o (IF Truthy(signature.author_inspire_id)
        THEN << AuthorityId("AUTHOR|(INSPIRE)INSPIRE-", signature.author_inspire_id) >>
        ELSE <<>>)

\* grouped_signatures[authority_id].append(signature_id), for each id in turn
RECURSIVE FileUnder(_, _, _)
FileUnder(grouped, authority_ids, signature_id) ==
    IF authority_ids = <<>> THEN grouped
    ELSE LET authority_id == Head(authority_ids)
             group == IF authority_id \in Keys(grouped)
                      THEN Append(grouped[authority_id], signature_id)
                      ELSE << signature_id >>
         IN  FileUnder(DictSet(grouped, authority_id, group), Tail(authority_ids),
                       signature_id)

\* group_by_authority_id (lines 30-81), from position i of the cluster on
RECURSIVE GroupFrom(_, _, _, _, _)
GroupFrom(predicted_cluster, signatures, i, grouped, rest) ==
    IF i > Len(predicted_cluster) THEN [grouped |-> grouped, rest |-> rest]
    ELSE LET signature_id == predicted_cluster[i]
             authority_ids == AuthorityIdsOf(signatures[signature_id])
         IN  GroupFrom(predicted_cluster, signatures, i + 1,
                       FileUnder(grouped, authority_ids, signature_id),
                       IF authority_ids = <<>> THEN Append(rest, signature_id) ELSE rest)

GroupByAuthorityId(predicted_cluster, signatures) ==
    GroupFrom(predicted_cluster, signatures, 1, EmptyDict, <<>>)

\* single_matching (lines 84-102): a linked signature has the same name
SingleMatching(signature_id, linked_signatures, signatures) ==
    \E i \in DOMAIN linked_signatures :
        signatures[linked_signatures[i]].author_name = signatures[signature_id].author_name

\* sorted(grouped_signatures, key=len of the group, reverse=True) of a dict
\* iterating in the given order: the sort is stable, so groups of one size
\* keep the order of the dict
RECURSIVE SortedFrom(_, _, _)
SortedFrom(order, grouped, size) ==
    IF size = 0 THEN <<>>
    ELSE LET OfSize(authority_id) == Len(grouped[authority_id]) = size
         IN  SelectSeq(order, OfSize) \o SortedFrom(order, grouped, size - 1)

\* step 1 (lines 136-148): the position in the sorted list of the first group
\* whose authority id is in the lookup, 0 if there is none
FirstResolved(sorted, lookup) ==
    IF \E i \in DOMAIN sorted : sorted[i] \in Keys(lookup)
    THEN CHOOSE i \in DOMAIN sorted :
            /\ sorted[i] \in Keys(lookup)
            /\ \A h \in 1..(i - 1) : sorted[h] \notin Keys(lookup)
    ELSE 0

\* a comparison that takes every looked-up group for a match
PerfectMatchAny(record_id, cds_id) == TRUE

\* line 161
PerfectMatch(record_id, cds_id) == record_id = cds_id

\* lines 172-179: single matching of the signatures of one group
RECURSIVE MatchSingles(_, _, _, _)
MatchSingles(group, i, linked, signatures) ==
    IF i > Len(group) THEN linked
    ELSE MatchSingles(group, i + 1,
            IF group[i] \notin Range(linked) /\ SingleMatching(group[i], linked, signatures)
            THEN Append(linked, group[i]) ELSE linked,
            signatures)

\* step 2 (lines 157-182) from position i of the remaining sorted groups on
RECURSIVE MatchGroups(_, _, _, _, _, _, _, _)
MatchGroups(sorted, i, grouped, lookup, record_id, mode, linked, signatures) ==
    IF i > Len(sorted) THEN linked
    ELSE LET authority_id == sorted[i]
             next ==
                 IF authority_id \in Keys(lookup)
                 THEN IF PerfectMatch(record_id, lookup[authority_id])
                      THEN linked \o grouped[authority_id] ELSE linked
                 ELSE IF mode = "careful"
                      THEN MatchSingles(grouped[authority_id], 1, linked, signatures)
                 ELSE IF mode = "fair" THEN linked \o grouped[authority_id]
                 ELSE linked
         IN  MatchGroups(sorted, i + 1, grouped, lookup, record_id, mode, next, signatures)

\* step 3 (lines 184-188)
RECURSIVE MatchRest(_, _, _, _)
MatchRest(rest, i, linked, signatures) ==
    IF i > Len(rest) THEN linked
    ELSE MatchRest(rest, i + 1,
            IF SingleMatching(rest[i], linked, signatures)
            THEN Append(linked, rest[i]) ELSE linked,
            signatures)

\* link_cluster (lines 105-192); order is the iteration order of
\* grouped_signatures; the list returned is given as the set of its elements
LinkCluster(predicted_cluster, signatures, lookup, mode, order) ==
    LET groups == GroupByAuthorityId(predicted_cluster, signatures)
        sorted == SortedFrom(order, groups.grouped, Len(predicted_cluster))
        first == FirstResolved(sorted, lookup)
    IN  IF first = 0 THEN NoResult
        ELSE LET record_id == lookup[sorted[first]]
                 remaining == SubSeq(sorted, 1, first - 1)
                                 \o SubSeq(sorted, first + 1, Len(sorted))
                 step2 == MatchGroups(remaining, 1, groups.grouped, lookup, record_id,
                                      mode, groups.grouped[sorted[first]], signatures)
                 step3 == IF mode \in {"careful", "fair"}
                          THEN MatchRest(groups.rest, 1, step2, signatures)
                          ELSE step2
             IN  IF mode = "adventurous"
                 THEN [record_id |-> << record_id >>, linked |-> Range(predicted_cluster)]
                 ELSE [record_id |-> << record_id >>, linked |-> Range(step3)]

Modes == { "pessimistic", "careful", "fair", "adventurous" }

\* the authority ids of the table and the lookups over them
AuthorityIds == { << "AUTHOR|(CDS)", "2108556" >>, << "AUTHOR|(SzGeCERN)", "389900" >> }

Lookups ==
    UNION { [ks -> { "2108556", "2094406" }] : ks \in SUBSET AuthorityIds }

LinkInit ==
    /\ MatchIdle
    /\ CostIdle
    /\ QueryIdle
    /\ UpdateIdle
    /\ l_pc = "call"
    /\ l_signatures \in SignatureTables
    /\ l_cluster = [i \in DOMAIN l_signatures |-> i]
    /\ l_lookup \in Lookups
    /\ l_order \in Orders(Keys(GroupByAuthorityId(l_cluster, l_signatures).grouped))
    /\ l_mode = ""
    /\ l_result = NoResult

\* one call link_cluster(predicted_cluster, signatures, lookup, mode)
LinkClusterCall ==
    /\ l_pc = "call"
    /\ \E mode \in Modes :
          /\ l_mode' = mode
          /\ l_result' = LinkCluster(l_cluster, l_signatures, l_lookup, mode, l_order)
    /\ l_pc' = "returned"
    /\ UNCHANGED << matchVars, costVars, queryVars, updateVars, l_cluster, l_signatures,
                    l_lookup, l_order >>

LinkNext == LinkClusterCall

LinkSpec == LinkInit /\ [][LinkNext]_vars

\* ----------------------------------------------------------- updating.update
\* update_record returns a record, or "" when the record has nothing to update
UpdateOutcomes ==
    UNION { [1..n -> BOOLEAN] : n \in 0..MaxRecords }

NewFile == [records |-> <<>>, closed |-> FALSE]

\* if file_handle: file_handle.close()
CloseFile(files, handle) ==
    IF handle = None THEN files
    ELSE [files EXCEPT ![handle[1]].closed = TRUE]

\* file_handle.write(record)
WriteRecord(files, handle, record) ==
    [files EXCEPT ![handle[1]].records = Append(@, record)]

UpdateInit ==
    /\ MatchIdle
    /\ CostIdle
    /\ QueryIdle
    /\ LinkIdle
    /\ u_pc = "loop"
    /\ u_clusters \in UpdateOutcomes
    /\ u_index = 0
    /\ chunk_size \in 1..MaxChunkSize
    /\ file_handle = None
    /\ chunk = 0
    /\ number_of_records = 0
    /\ u_files = <<>>
    /\ u_error = "none"

\* updating.py 186-200: one pass of the loop over clusters_swapped
UpdateIteration ==
    /\ u_pc = "loop"
    /\ u_index < Len(u_clusters)
    /\ LET opens == number_of_records % chunk_size = 0
           opened == IF opens THEN Append(CloseFile(u_files, file_handle), NewFile)
                     ELSE u_files
           handle == IF opens THEN << chunk + 1 >> ELSE file_handle
           record == u_clusters[u_index + 1]
       IN  /\ chunk' = IF opens THEN chunk + 1 ELSE chunk
           /\ file_handle' = handle
           /\ u_files' = IF record THEN WriteRecord(opened, handle, u_index + 1)
                         ELSE opened
           /\ number_of_records' = IF record THEN number_of_records + 1
                                   ELSE number_of_records
    /\ u_index' = u_index + 1
    /\ UNCHANGED << matchVars, costVars, queryVars, linkVars, u_pc, u_clusters,
                    chunk_size, u_error >>

\* updating.py 202: file_handle.close() on an open file
UpdateFinish ==
    /\ u_pc = "loop"
    /\ u_index = Len(u_clusters)
    /\ file_handle # None
    /\ u_files' = CloseFile(u_files, file_handle)
    /\ u_pc' = "done"
    /\ UNCHANGED << matchVars, costVars, queryVars, linkVars, u_clusters, u_index,
                    chunk_size, file_handle, chunk, number_of_records, u_error >>

\* updating.py 202: file_handle is still None, None has no attribute close
UpdateRaises ==
    /\ u_pc = "loop"
    /\ u_index = Len(u_clusters)
    /\ file_handle = None
    /\ u_error' = "AttributeError"
    /\ u_pc' = "raised"
    /\ UNCHANGED << matchVars, costVars, queryVars, linkVars, u_clusters, u_index,
                    chunk_size, file_handle, chunk, number_of_records, u_files >>

UpdateNext == UpdateIteration \/ UpdateFinish \/ UpdateRaises

UpdateSpec == UpdateInit /\ [][UpdateNext]_vars

\* ======================================================= properties
\* ------------------------------------------------ of the cost matrix (CostSpec)
CmInter(c) == Cardinality(cm_before[c[1]] \cap cm_after[c[2]])

CmSymDiff(c) == Cardinality(SymmetricDifference(cm_before[c[1]], cm_after[c[2]]))

\* the tie-break term of a cell, read back from the matrix: -(cost + |b n a|)
CmTieBreak(c) ==
    LET k == cm_cost[c] IN Rat(-(k.num + CmInter(c) * k.den), k.den)

\* C4: within one cost matrix, cost(b,a) < cost(b',a') exactly when the
\* intersection of (b,a) is larger, or the intersections are equal and the
\* symmetric difference of (b,a) is strictly smaller.
C4_CostOrderIsLexicographic ==
    cm_pc = "returned" =>
        \A c, d \in DOMAIN cm_cost :
            RatLess(cm_cost[c], cm_cost[d]) <=>
                \/ CmInter(c) > CmInter(d)
                \/ CmInter(c) = CmInter(d) /\ CmSymDiff(c) < CmSymDiff(d)

\* a matrix in which the tie-break term favours one cell and the intersection
\* the other, and the intersection wins
C4_Witness ==
    /\ cm_pc = "returned"
    /\ \E c, d \in DOMAIN cm_cost :
          /\ CmInter(c) > CmInter(d)
          /\ CmSymDiff(c) > CmSymDiff(d)
          /\ RatLess(cm_cost[c], cm_cost[d])

\* C5 as stated: for |A| >= 1 every tie-break term is strictly smaller than 1
\* and at most 1/|A|.
C5_TieBreakBelowOne ==
    cm_pc = "returned" =>
        \A c \in DOMAIN cm_cost :
            /\ RatLess(CmTieBreak(c), Rat(1, 1))
            /\ RatLeq(CmTieBreak(c), Rat(1, Len(cm_after)))

\* C5 amended: every tie-break term is at most 1/|A|, and it is strictly
\* smaller than 1 except when |A| = 1 and b = a, where it is exactly 1.
C5_TieBreakAtMostOne ==
    cm_pc = "returned" =>
        \A c \in DOMAIN cm_cost :
            /\ RatLeq(CmTieBreak(c), Rat(1, Len(cm_after)))
            /\ RatLess(CmTieBreak(c), Rat(1, 1)) <=>
                   ~(Len(cm_after) = 1 /\ cm_before[c[1]] = cm_after[c[2]])

\* a single after-cluster compared with an equal before-cluster: the term is 1
C5_Witness ==
    /\ cm_pc = "returned"
    /\ \E c \in DOMAIN cm_cost :
          /\ Len(cm_after) = 1
          /\ cm_before[c[1]] = cm_after[c[2]]
          /\ cm_before[c[1]] # {}
          /\ RatEq(CmTieBreak(c), Rat(1, 1))

\* ------------------------------------------------- of the matching (Spec)
\* _match_clusters has returned matching_result for the subproblem
\* (arg_before, partition_after)
MatchClustersReturned ==
    \/ pc = "collect"
    \/ pc = "done" /\ entry = "_match_clusters"

DoMatchingReturned == pc = "done" /\ entry = "do_matching"

CountIn(seq, e) == Cardinality({ i \in DOMAIN seq : seq[i] = e })

Firsts(pairs) == [i \in DOMAIN pairs |-> pairs[i].items[1]]

Seconds(pairs) == [i \in DOMAIN pairs |-> pairs[i].items[2]]

\* the elements of the lists a bucket of do_matching holds, in order
RECURSIVE Flatten(_)
Flatten(bucket_list) ==
    IF bucket_list = <<>> THEN <<>>
    ELSE (IF Head(bucket_list).type = "list" THEN Head(bucket_list).items
          ELSE <<Head(bucket_list)>>) \o Flatten(Tail(bucket_list))

\* the buckets classify the keys of the partitions before and after completely:
\* every before-key once in matched or removed, every after-key once in matched
\* or new, and nothing else in the buckets
Complete(before, after, pairs, new, remove) ==
    /\ \A k \in Keys(before) : CountIn(Firsts(pairs), k) + CountIn(remove, k) = 1
    /\ \A k \in Keys(after) : CountIn(Seconds(pairs), k) + CountIn(new, k) = 1
    /\ Range(Firsts(pairs)) \cup Range(remove) \subseteq Keys(before)
    /\ Range(Seconds(pairs)) \cup Range(new) \subseteq Keys(after)

\* C1: completeness, of every subproblem handed to _match_clusters and of
\* do_matching: every before-key is in exactly one of matched and removed,
\* every after-key in exactly one of matched and new.
C1_Completeness ==
    /\ MatchClustersReturned =>
          Complete(arg_before, partition_after, matching_result.pairs,
                   matching_result.new, matching_result.remove)
    /\ DoMatchingReturned =>
          Complete(entry_before, entry_after, Flatten(bucket_matched),
                   Flatten(bucket_new), Flatten(bucket_removed))

\* C2: do_matching returns flat buckets: every element of matched is one
\* (before_key, after_key) pair, every element of new and removed is one key.
C2_BucketsAreFlat ==
    DoMatchingReturned =>
        /\ \A i \in DOMAIN bucket_matched : bucket_matched[i].type = "tuple"
        /\ \A i \in DOMAIN bucket_new : bucket_new[i].type \in {"int", "str"}
        /\ \A i \in DOMAIN bucket_removed : bucket_removed[i].type \in {"int", "str"}

\* The assignments of the problem (B, A): each after-key takes a real
\* before-key or its virtual slot ("new"), no real before-key is taken twice.
Assignments(before, after) ==
    { f \in [Keys(after) -> [real : BOOLEAN, key : Keys(before) \cup Keys(after)]] :
        /\ \A a \in Keys(after) :
              IF f[a].real THEN f[a].key \in Keys(before) ELSE f[a].key = a
        /\ \A a1, a2 \in Keys(after) :
              (a1 # a2 /\ f[a1].real /\ f[a2].real) => f[a1].key # f[a2].key }

RECURSIVE AssignmentSum(_, _, _, _)
AssignmentSum(before, after, f, todo_keys) ==
    IF todo_keys = {} THEN [cost |-> Rat(0, 1), overlap |-> 0]
    ELSE LET a == CHOOSE a \in todo_keys : TRUE
             b == IF f[a].real THEN before[f[a].key] ELSE {}
             rest == AssignmentSum(before, after, f, todo_keys \ {a})
         IN  [cost |-> RatAdd(CostEntry(b, after[a], Cardinality(Keys(after))), rest.cost),
              overlap |-> Cardinality(b \cap after[a]) + rest.overlap]

\* the buckets are the decoding of assignment f
Decodes(before, after, f, result) ==
    /\ Range(result.pairs) =
          { PyTuple(f[a].key, a) : a \in { a \in Keys(after) : f[a].real } }
    /\ Range(result.new) = { a \in Keys(after) : ~f[a].real }
    /\ Range(result.remove) =
          { b \in Keys(before) : \A a \in Keys(after) : ~(f[a].real /\ f[a].key = b) }
    /\ Len(result.pairs) + Len(result.new) = Cardinality(Keys(after))
    /\ Len(result.pairs) + Len(result.remove) = Cardinality(Keys(before))

\* C3: when linprog reports an optimum, the triple _match_clusters returns is
\* the decoding of an assignment of minimum total cost, and the overlap summed
\* over its matched pairs is the maximum over all assignments.
C3_Optimality ==
    (MatchClustersReturned /\ solution.status = 0) =>
        \E f \in Assignments(arg_before, partition_after) :
            LET mine == AssignmentSum(arg_before, partition_after, f, Keys(partition_after))
            IN  /\ Decodes(arg_before, partition_after, f, matching_result)
                /\ \A g \in Assignments(arg_before, partition_after) :
                      LET other == AssignmentSum(arg_before, partition_after, g,
                                                 Keys(partition_after))
                      IN  /\ RatLeq(mine.cost, other.cost)
                          /\ mine.overlap >= other.overlap

\* C6: after the virtual clusters are appended, partition_before holds
\* |B| + |A| clusters: every real before-cluster with its own item set, and one
\* empty virtual cluster per after-key.
C6_VirtualSlots ==
    pc = "linprog" =>
        /\ Cardinality(Keys(partition_before)) =
              Cardinality(Keys(arg_before)) + Cardinality(Keys(partition_after))
        /\ \A k \in Keys(arg_before) :
              k \in Keys(partition_before) /\ partition_before[k] = arg_before[k]
        /\ \A k \in Keys(partition_before) \ Keys(arg_before) : partition_before[k] = {}

\* two keys with the same printed form and different types
Twins(k1, k2) == PyStr(k1) = PyStr(k2) /\ k1.type # k2.type

HasTwins(before, after) ==
    \E k1, k2 \in Keys(before) \cup Keys(after) : Twins(k1, k2)

\* C7: keys that differ only in type are distinct clusters at every stage:
\* when the after-partition of a subproblem holds such keys, each of them has
\* a virtual cluster of its own, and whenever the partitions hold such keys,
\* in one partition or across the two, each key receives its own
\* classification.
C7_TypeSensitiveKeys ==
    /\ pc = "linprog" =>
          \A a1, a2 \in Keys(partition_after) :
              Twins(a1, a2) =>
                  /\ VirtualKey(a1) # VirtualKey(a2)
                  /\ {VirtualKey(a1), VirtualKey(a2)} \subseteq Keys(partition_before)
    /\ (MatchClustersReturned /\ solution.status = 0
            /\ HasTwins(arg_before, partition_after)) =>
          Complete(arg_before, partition_after, matching_result.pairs,
                   matching_result.new, matching_result.remove)
    /\ (DoMatchingReturned /\ HasTwins(entry_before, entry_after)) =>
          Complete(entry_before, entry_after, Flatten(bucket_matched),
                   Flatten(bucket_new), Flatten(bucket_removed))

\* C8: do_matching(P, copy of P) returns the pairs (k, k) for every key k of P
\* as matched, and nothing as new or removed.
C8_IdentityStability ==
    (DoMatchingReturned /\ entry_before = entry_after) =>
        /\ Range(Flatten(bucket_matched)) = { PyTuple(k, k) : k \in Keys(entry_before) }
        /\ Len(Flatten(bucket_matched)) = Cardinality(Keys(entry_before))
        /\ Flatten(bucket_new) = <<>>
        /\ Flatten(bucket_removed) = <<>>

C10_NonConvergenceSurfaced ==
    ~(MatchClustersReturned /\ solution.status = 1)

\* C11: a subproblem with an empty side is resolved without the solver:
\* linprog is never called, and so never returns, in a call of _match_clusters
\* whose partition_before or partition_after was passed empty.
C11_NoSolverOnEmptySide ==
    pc = "decode" => (Keys(arg_before) # {} /\ Keys(partition_after) # {})

\* the keys of the sequence are exactly the keys of the set, each once
ExactlyTheKeys(bucket, ks) ==
    /\ Range(bucket) = ks
    /\ Len(bucket) = Cardinality(ks)

\* C12: _match_clusters(B, {}) returns no pair, no new key, and the keys of B,
\* each once, as removed.
C12_EmptyAfterSide ==
    (MatchClustersReturned /\ Keys(partition_after) = {}) =>
        /\ matching_result.pairs = <<>>
        /\ matching_result.new = <<>>
        /\ ExactlyTheKeys(matching_result.remove, Keys(arg_before))

\* two clusters matched against nothing, both removed
C12_Witness ==
    /\ MatchClustersReturned
    /\ Keys(partition_after) = {}
    /\ Cardinality(Keys(arg_before)) = MaxClusters
    /\ Len(matching_result.remove) = MaxClusters

\* C13: _match_clusters({}, A) returns no pair, nothing removed, and the keys
\* of A, each once, as new, however many keys A has.
C13_EmptyBeforeSide ==
    (MatchClustersReturned /\ Keys(arg_before) = {}) =>
        /\ matching_result.pairs = <<>>
        /\ matching_result.remove = <<>>
        /\ ExactlyTheKeys(matching_result.new, Keys(partition_after))

\* ------------------------------------------------- of the divider (Spec)
\* _divide_into_subproblems has just returned to do_matching
DividerReturned == entry = "do_matching" /\ pc = "loop" /\ todo = subproblems

\* the clusters of the two input partitions, and the items of one of them
InputClusters ==
    { <<"before", k>> : k \in Keys(entry_before) }
        \cup { <<"after", k>> : k \in Keys(entry_after) }

ClusterItems(n) == IF n[1] = "before" THEN entry_before[n[2]] ELSE entry_after[n[2]]

\* the dict of the cluster's side in a subproblem
SideOf(n, sp) == IF n[1] = "before" THEN sp[1] ELSE sp[2]

InSubproblem(n, sp) == n[2] \in Keys(SideOf(n, sp))

SubproblemItems(sp) ==
    UNION ({ sp[1][k] : k \in Keys(sp[1]) } \cup { sp[2][k] : k \in Keys(sp[2]) })

\* C14: the subproblems hold every before-key and every after-key in exactly
\* one subproblem, on its own side and with its whole item set, they hold no
\* other key, and their items together are the items of the input.
C14_DividerCoverage ==
    DividerReturned =>
        /\ \A n \in InputClusters :
              /\ Cardinality({ sp \in subproblems : InSubproblem(n, sp) }) = 1
              /\ \A sp \in subproblems :
                    InSubproblem(n, sp) => SideOf(n, sp)[n[2]] = ClusterItems(n)
        /\ \A sp \in subproblems :
              /\ Keys(sp[1]) \subseteq Keys(entry_before)
              /\ Keys(sp[2]) \subseteq Keys(entry_after)
        /\ UNION { SubproblemItems(sp) : sp \in subproblems }
              = UNION { ClusterItems(n) : n \in InputClusters }

\* three subproblems: a matched pair of clusters, a before-cluster on its own
\* and an after-cluster on its own
C14_Witness ==
    /\ DividerReturned
    /\ Cardinality(subproblems) = 3
    /\ \E sp \in subproblems : Keys(sp[1]) # {} /\ Keys(sp[2]) # {}
    /\ \E sp \in subproblems : Keys(sp[1]) = {}
    /\ \E sp \in subproblems : Keys(sp[2]) = {}

\* the sets of input clusters that hold, with a cluster, every cluster sharing
\* an item with it
SharingClosed ==
    { S \in SUBSET InputClusters :
        \A n \in S, m \in InputClusters :
            ClusterItems(n) \cap ClusterItems(m) # {} => m \in S }

\* a chain of clusters sharing items leads from n to m: no such set holds n
\* without m
Linked(closed, n, m) == \A S \in closed : n \in S => m \in S

\* C15: two clusters are in the same subproblem exactly when a chain of
\* clusters sharing items links them; so no item is in two subproblems, and
\* no subproblem splits into two parts without a common item.
C15_DividerComponents ==
    DividerReturned =>
        /\ LET closed == SharingClosed
           IN  \A n, m \in InputClusters :
                   (\E sp \in subproblems : InSubproblem(n, sp) /\ InSubproblem(m, sp))
                       <=> Linked(closed, n, m)
        /\ \A sp1, sp2 \in subproblems :
              sp1 # sp2 => SubproblemItems(sp1) \cap SubproblemItems(sp2) = {}
        /\ \A sp \in subproblems :
              LET members == { n \in InputClusters : InSubproblem(n, sp) }
              IN  \A part \in (SUBSET members) \ {{}, members} :
                      UNION { ClusterItems(n) : n \in part }
                          \cap UNION { ClusterItems(n) : n \in members \ part } # {}

\* two before-clusters without a common item in one subproblem, linked only
\* through the after-cluster
C15_Witness ==
    /\ DividerReturned
    /\ \E sp \in subproblems :
          /\ Cardinality(Keys(sp[1])) = 2
          /\ Cardinality(Keys(sp[2])) = 1

\* C16: every empty cluster is a subproblem of its own, on its own side, with
\* the empty set as its value and an empty dict on the other side, and it is
\* in no other subproblem.
C16_DividerEmptyClusters ==
    DividerReturned =>
        \A n \in InputClusters :
            ClusterItems(n) = {} =>
                LET own == DictSet(EmptyDict, n[2], {})
                    alone == IF n[1] = "before" THEN << own, EmptyDict >>
                             ELSE << EmptyDict, own >>
                IN  /\ alone \in subproblems
                    /\ \A sp \in subproblems : InSubproblem(n, sp) => sp = alone

\* an empty before-cluster beside a before-cluster and an after-cluster that
\* share an item
C16_Witness ==
    /\ DividerReturned
    /\ \E k \in Keys(entry_before) : entry_before[k] = {}
    /\ \E sp \in subproblems : Keys(sp[1]) # {} /\ Keys(sp[2]) # {}

\* C17: when a value of the before-partition is a scalar, the divider raises
\* TypeError without having produced a subproblem, and the exception leaves
\* do_matching: no _match_clusters call is made and no buckets are returned.
C17_InvalidValueRaises ==
    (entry = "do_matching" /\ \E k \in Keys(entry_before) : entry_before[k] = Scalar) =>
        /\ pc \in {"call", "raised"}
        /\ pc = "raised" => error = "TypeError"
        /\ subproblems = {}
        /\ matching_result = EmptyBuckets
        /\ bucket_matched = <<>> /\ bucket_new = <<>> /\ bucket_removed = <<>>

\* the TypeError has left do_matching, called with a scalar beside a valid
\* cluster
C17_Witness ==
    /\ pc = "raised"
    /\ error = "TypeError"
    /\ \E k1, k2 \in Keys(entry_before) :
          entry_before[k1] = Scalar /\ entry_before[k2] # Scalar

\* before-cluster b is a best partner of after-cluster a: no before-cluster
\* has a larger intersection with a, and none with the same intersection has
\* a smaller symmetric difference
BestPartner(before, b, a_items) ==
    \A other \in Keys(before) :
        LET mine == Cardinality(before[b] \cap a_items)
            theirs == Cardinality(before[other] \cap a_items)
        IN  \/ mine > theirs
            \/ /\ mine = theirs
               /\ Cardinality(SymmetricDifference(before[b], a_items))
                     <= Cardinality(SymmetricDifference(before[other], a_items))

\* _match_clusters has returned from a subproblem with one after-cluster and
\* one or more before-clusters that each share an item with it
MergeReturned ==
    /\ MatchClustersReturned
    /\ Cardinality(Keys(partition_after)) = 1
    /\ Keys(arg_before) # {}
    /\ \A b \in Keys(arg_before), a \in Keys(partition_after) :
          arg_before[b] \cap partition_after[a] # {}

\* C20: in a merge the after-cluster is matched to a best partner among the
\* before-clusters, every other before-cluster is removed, and nothing is new.
C20_MergeRule ==
    MergeReturned =>
        \E b \in Keys(arg_before), a \in Keys(partition_after) :
            /\ BestPartner(arg_before, b, partition_after[a])
            /\ matching_result.pairs = << PyTuple(b, a) >>
            /\ ExactlyTheKeys(matching_result.remove, Keys(arg_before) \ {b})
            /\ matching_result.new = <<>>

\* the contents of do_matching's buckets, as sets
ReturnedBuckets ==
    [pairs |-> Range(Flatten(bucket_matched)), new |-> Range(Flatten(bucket_new)),
     remove |-> Range(Flatten(bucket_removed))]

\* C18: solving the components one by one gives the same buckets, as sets, as
\* one call of _match_clusters on the two whole partitions: what do_matching
\* returns is a result of the whole call, and what the whole call returns is
\* a result of do_matching.
C18_ComponentIndependence ==
    /\ DoMatchingReturned =>
          ReturnedBuckets \in
              { AsSets(m) : m \in MatchClusters(entry_before, entry_after, DefaultMaxiter) }
    /\ (pc = "done" /\ entry = "_match_clusters" /\ maxiter = DefaultMaxiter) =>
          AsSets(matching_result) \in
              DoMatching(DivideIntoSubproblems(entry_before, entry_after))

\* C19: the result is determined by the input: every result _match_clusters
\* can return for the partitions it was called with classifies the keys as
\* the returned one does, and so does every result of do_matching, whatever
\* the iteration order of the dicts.
C19_Determinism ==
    /\ MatchClustersReturned =>
          \A m \in MatchClusters(arg_before, partition_after, maxiter) :
              AsSets(m) = AsSets(matching_result)
    /\ DoMatchingReturned =>
          \A r \in DoMatching(subproblems) : r = ReturnedBuckets

\* ------------------------------------ of create_signatures (QuerySpec)
\* the names of the author fields that have a subfield 'a' and are no
\* collaboration, in field order
RECURSIVE PersonNames(_)
PersonNames(authors) ==
    IF authors = <<>> THEN <<>>
    ELSE (IF Head(authors).a # <<>> /\ ~IsCollaboration(Head(authors).a[1])
          THEN << Head(authors).a[1] >> ELSE <<>>) \o PersonNames(Tail(authors))

\* C21: create_signatures returns one signature for each author field that
\* has a name and is no collaboration, in field order, wherever the
\* collaborations stand in the list.
C21_OnlyCollaborationsSkipped ==
    q_pc = "returned" =>
        /\ Len(q_signatures) = Len(PersonNames(q_authors))
        /\ \A i \in DOMAIN q_signatures :
              /\ q_signatures[i].author_name = PersonNames(q_authors)[i]
              /\ q_signatures[i].publication_id = q_record_id

GroupOf(authority_id) ==
    { i \in Range(l_cluster) :
        \E k \in DOMAIN AuthorityIdsOf(l_signatures[i]) :
            AuthorityIdsOf(l_signatures[i])[k] = authority_id }

\* the authority ids of the cluster's signatures that the lookup resolves
ResolvedGroups ==
    { authority_id \in Keys(l_lookup) : GroupOf(authority_id) # {} }

\* what the call would have returned in another mode
InMode(mode) == LinkCluster(l_cluster, l_signatures, l_lookup, mode, l_order)

\* C23: the four modes return the same record id; 'pessimistic' links exactly
\* the groups whose lookup is that record id; 'careful' and 'fair' link at
\* least what 'pessimistic' links; 'adventurous' returns the whole cluster
\* when a group resolves and nothing otherwise.
C23_ModesNested ==
    l_pc = "returned" =>
        /\ \A mode \in Modes : InMode(mode).record_id = l_result.record_id
        /\ l_mode = "pessimistic" =>
              l_result.linked =
                  UNION { GroupOf(authority_id) :
                          authority_id \in { a \in ResolvedGroups :
                                               << l_lookup[a] >> = l_result.record_id } }
        /\ l_mode \in {"careful", "fair"} =>
              InMode("pessimistic").linked \subseteq l_result.linked
        /\ l_mode = "adventurous" =>
              l_result.linked = IF ResolvedGroups # {} THEN Range(l_cluster) ELSE {}

\* a careful call that links a signature the pessimistic one leaves out
C23_Witness ==
    /\ l_pc = "returned"
    /\ l_mode = "careful"
    /\ l_result.record_id # None
    /\ InMode("pessimistic").linked # l_result.linked

\* ------------------------------------- of the matching (Spec), continued
\* a direct call of _match_clusters has returned to its caller
DirectCallReturned == pc = "done" /\ entry = "_match_clusters"

\* C24: on return from _match_clusters the caller's two mappings are as they
\* were on entry, no virtual key is left in partition_before, and a second
\* call on the same mappings can return the same triple.
C24_ArgumentsUnchanged ==
    DirectCallReturned =>
        /\ signatures_before = entry_before
        /\ signatures_after = entry_after
        /\ matching_result \in MatchClusters(signatures_before, signatures_after, maxiter)

\* the rows of the augmented mapping below and above len_first
len_first == Cardinality(Keys(partition_before)) - Cardinality(Keys(partition_after))

RowsBelow == { keys_before[i] : i \in { i \in DOMAIN keys_before : i <= len_first } }

RowsAbove == { keys_before[i] : i \in { i \in DOMAIN keys_before : i > len_first } }

\* C25: once the matrices are laid out, and through the decoding, row i of
\* the cost matrix is the cluster of the key reported for index i, the rows
\* up to len_first are exactly the real before-keys, and the other rows are
\* exactly the virtual keys, one per after-key.
C25_IndexAlignment ==
    pc \in {"linprog", "decode"} =>
        /\ \A i \in DOMAIN keys_before :
              ViewValues(partition_before, keys_before)[i] = partition_before[keys_before[i]]
        /\ RowsBelow = Keys(arg_before)
        /\ RowsAbove = { VirtualKey(a) : a \in Keys(partition_after) }
        /\ Cardinality(RowsAbove) = Cardinality(Keys(partition_after))

\* the elements of a list as a multiset
SeqToBag(seq) == [e \in Range(seq) |-> CountIn(seq, e)]

AsBags(buckets) ==
    [pairs |-> SeqToBag(buckets.pairs), new |-> SeqToBag(buckets.new),
     remove |-> SeqToBag(buckets.remove)]

\* the multisets that solving every subproblem of the set on its own, from
\* its own two dicts alone, can add up to; the sum does not depend on the
\* order of its terms
RECURSIVE SolvedApart(_)
SolvedApart(subproblem_set) ==
    IF subproblem_set = {}
    THEN { [pairs |-> EmptyBag, new |-> EmptyBag, remove |-> EmptyBag] }
    ELSE LET sp == CHOOSE sp \in subproblem_set : TRUE
         IN  { [pairs |-> r.pairs (+) rest.pairs, new |-> r.new (+) rest.new,
                remove |-> r.remove (+) rest.remove] :
               r \in { AsBags(m) : m \in MatchClusters(sp[1], sp[2], DefaultMaxiter) },
               rest \in SolvedApart(subproblem_set \ {sp}) }

C27_MatchedPairsOverlap ==
    MatchClustersReturned =>
        \A pair \in Range(matching_result.pairs) :
            (pair.items[1] \in Keys(arg_before) /\ arg_before[pair.items[1]] # {})
                => arg_before[pair.items[1]] \cap partition_after[pair.items[2]] # {}

\* C28: no before-key and no after-key occurs in two matched pairs, and no key
\* occurs twice in new or twice in removed, in the result of _match_clusters
\* and in the flattened buckets of do_matching.
OneToOne(buckets) ==
    /\ \A b \in Range(Firsts(buckets.pairs)) : CountIn(Firsts(buckets.pairs), b) = 1
    /\ \A a \in Range(Seconds(buckets.pairs)) : CountIn(Seconds(buckets.pairs), a) = 1
    /\ \A k \in Range(buckets.new) : CountIn(buckets.new, k) = 1
    /\ \A k \in Range(buckets.remove) : CountIn(buckets.remove, k) = 1

C28_OneToOne ==
    /\ MatchClustersReturned => OneToOne(matching_result)
    /\ DoMatchingReturned =>
          OneToOne([pairs |-> Flatten(bucket_matched), new |-> Flatten(bucket_new),
                    remove |-> Flatten(bucket_removed)])

\* C29: whenever linprog is called with at least one after-key, some 0/1
\* assignment satisfies both families of constraints.
C29_AlwaysFeasible ==
    (pc = "linprog" /\ Keys(partition_after) # {}) =>
        \E x \in BasicSolutions(n_cluster_before, n_cluster_after) :
            Feasible(x, n_cluster_after)

\* ------------------------------------------------ of update (UpdateSpec)
UpdateEnded == u_pc \in {"done", "raised"}

\* the clusters update_record returns a record for
WithUpdate == { i \in DOMAIN u_clusters : u_clusters[i] }

\* the number of files that hold the record of cluster i
TimesWritten(i) ==
    Cardinality({ << k, j >> \in (DOMAIN u_files) \X (1..MaxRecords + 1) :
                    j \in DOMAIN u_files[k].records /\ u_files[k].records[j] = i })

\* C30: when update ends, every file but the last holds exactly chunk_size
\* records, the last one holds the remainder, no file is empty, every record
\* with an update is written exactly once, every file is closed and no
\* exception was raised (a run with zero clusters included).
C30_ChunkedOutput ==
    UpdateEnded =>
        /\ u_error = "none"
        /\ \A k \in DOMAIN u_files :
              /\ u_files[k].closed
              /\ u_files[k].records # <<>>
              /\ k < Len(u_files) => Len(u_files[k].records) = chunk_size
              /\ Len(u_files[k].records) <= chunk_size
        /\ \A i \in DOMAIN u_clusters :
              TimesWritten(i) = (IF i \in WithUpdate THEN 1 ELSE 0)

====
